---- MODULE Spec2Model ----
(***************************************************************************)
(* A model of with.py: "perform destructive file operations safely".       *)
(* One run of the program is one behaviour: the argument vector and the    *)
(* filesystem are fixed at start, the standard-input stream and the answer *)
(* to the prompt are drawn where the code reads them, and every removal    *)
(* primitive may fail for reasons only the operating system knows.         *)
(***************************************************************************)
EXTENDS Integers, Sequences, FiniteSets, TLC

\* ------------------------------------------------------------------ bounds
\* At most MaxPaths path tokens on the command line.
MaxPaths == 3
\* At most MaxStream characters on the standard-input stream.
MaxStream == 4

\* ---------------------------------------------------------------- universe
\* The path tokens a command line is built from ("-" is the stdin sentinel).
PathTokens == {"-", "a", "a/a", "a a"}
\* The characters a stream is built from; lines end at "\n".
Chars == {"a", " ", "\n"}
\* The characters str.strip() removes, among Chars.
Whitespace == {" ", "\n"}
\* The names the filesystem may hold; "a/a" lives inside "a".
Names == {"a", "a/a", "a a"}
Kinds == {"none", "file", "dir", "other"}
\* What the user may type at the prompt; EOF is the closed stream.
Responses == {"y", "n", "", "Y", "yes"}
EOF == "<EOF>"
NoResponse == "<none>"

SeqsUpTo(S, n) == UNION {[1..k -> S] : k \in 0..n}
Front(s) == SubSeq(s, 1, Len(s) - 1)
Last(s) == s[Len(s)]

\* ------------------------------------------------------------- filesystem
Children(p) == IF p = "a" THEN {"a/a"} ELSE {}

\* A filesystem is well formed when an entry exists only inside a directory.
WellFormed(f) == \A p \in Names : \A c \in Children(p) :
                    f[c] # "none" => f[p] = "dir"

FileSystems == {f \in [Names -> Kinds] : WellFormed(f)}

Kind(f, p) == IF p \in Names THEN f[p] ELSE "none"

\* os.path.exists, os.path.isfile, os.path.isdir
exists(f, p) == Kind(f, p) # "none"
isfile(f, p) == Kind(f, p) = "file"
isdir(f, p) == Kind(f, p) = "dir"

\* A removal that does not mind a missing path.
CanRemove_force(f, p) == Kind(f, p) # "dir"

\* os.remove unlinks anything that is not a directory; it fails on a
\* directory and on a missing path.
CanRemove(f, p) == Kind(f, p) \in {"file", "other"}
os_remove(f, p) == [q \in Names |-> IF q = p THEN "none" ELSE f[q]]

\* shutil.rmtree removes a directory and everything under it; it fails on
\* anything that is not a directory.
CanRmtree(f, p) == Kind(f, p) = "dir"
rmtree(f, p) == [q \in Names |-> IF q = p \/ q \in Children(p) THEN "none" ELSE f[q]]

\* What a failing rmtree may leave behind: it stops at the first entry it
\* cannot remove, having removed the entries of R before it.
rmtree_partial(f, R) == [q \in Names |-> IF q \in R THEN "none" ELSE f[q]]

\* ------------------------------------------------------------ parse_args
\* A command line: the two flags and the positional tokens in order.
Commands == {"remove", "move", "copy"}

PositionalLists == {p \in SeqsUpTo(PathTokens, MaxPaths) : TRUE}
                      \cup {p \o <<c>> : p \in SeqsUpTo(PathTokens, MaxPaths), c \in Commands}

Argvs == [interactive : BOOLEAN, verbose : BOOLEAN, pos : PositionalLists]

Streams == SeqsUpTo(Chars, MaxStream)

\* A parser whose files argument takes zero or more tokens.
UsageOk_star(pos) == Len(pos) >= 1 /\ pos[Len(pos)] \in Commands

\* argparse: files takes one or more tokens and command the last one, which
\* must be one of the choices; anything else is parser.error.
UsageOk(pos) == Len(pos) >= 2 /\ Last(pos) \in Commands

\* A parser that leaves verbose as given.
ImpliedVerbose_asgiven(interactive, verbose) == verbose

\* args.interactive forces args.verbose.
ImpliedVerbose(interactive, verbose) == IF interactive THEN TRUE ELSE verbose

\* The single dash: filenames come from the stream.
IsStdin(files) == files = <<"-">>

\* Iterating a stream yields its lines, each with its terminator.
NewlineAt(s) == IF \E i \in 1..Len(s) : s[i] = "\n"
                THEN CHOOSE i \in 1..Len(s) : s[i] = "\n" /\ \A j \in 1..(i - 1) : s[j] # "\n"
                ELSE 0

RECURSIVE readlines(_)
readlines(s) == IF s = <<>> THEN <<>>
                ELSE IF NewlineAt(s) = 0 THEN <<s>>
                ELSE <<SubSeq(s, 1, NewlineAt(s))>> \o readlines(SubSeq(s, NewlineAt(s) + 1, Len(s)))

RECURSIVE lstrip(_)
lstrip(s) == IF s # <<>> /\ s[1] \in Whitespace THEN lstrip(Tail(s)) ELSE s

RECURSIVE rstrip(_)
rstrip(s) == IF s # <<>> /\ Last(s) \in Whitespace THEN rstrip(Front(s)) ELSE s

\* A strip that leaves the leading whitespace.
strip_right(s) == rstrip(s)

\* str.strip()
strip(s) == rstrip(lstrip(s))

\* A sequence of characters as the string it spells.
RECURSIVE Str(_)
Str(s) == IF s = <<>> THEN "" ELSE s[1] \o Str(Tail(s))

\* [line.strip() for line in input_stream]
StreamFiles(s) == [i \in 1..Len(readlines(s)) |-> Str(strip(readlines(s)[i]))]

\* A check that lets move through.
Implemented_move(command) == command # "copy"

\* Only remove is implemented.
Implemented(command) == command = "remove"

NoArgs == [files |-> <<>>, command |-> "", interactive |-> FALSE, verbose |-> FALSE]

\* parse_args: the outcome and, when it returns, the namespace it returns.
parse_args(argv, s) ==
    IF ~UsageOk(argv.pos)
    THEN [outcome |-> "usage", args |-> NoArgs]
    ELSE LET files == Front(argv.pos)
             command == Last(argv.pos)
             verbose == ImpliedVerbose(argv.interactive, argv.verbose)
             args == IF IsStdin(files)
                     THEN [files |-> StreamFiles(s), command |-> command,
                           interactive |-> FALSE, verbose |-> TRUE]
                     ELSE [files |-> files, command |-> command,
                           interactive |-> argv.interactive, verbose |-> verbose]
         IN IF ~Implemented(command)
            THEN [outcome |-> "NotImplementedError", args |-> NoArgs]
            ELSE [outcome |-> "ok", args |-> args]

\* Whether parse_args reads the stream at all.
ReadsStream(argv) == UsageOk(argv.pos) /\ IsStdin(Front(argv.pos))

\* -------------------------------------------------------------- classify
\* partition(items, predicate): the items that satisfy the predicate, and
\* the others; the predicate is given as a function on the items.
partition(items, predicate) ==
    <<SelectSeq(items, LAMBDA x : predicate[x]), SelectSeq(items, LAMBDA x : ~predicate[x])>>

\* A predicate of paths as a function on the items it is asked about.
Items(items) == {items[k] : k \in 1..Len(items)}

\* A classify that takes every non-file for unknown.
classify_nonfiles(f, items) ==
    LET en == partition(items, [p \in Items(items) |-> exists(f, p)])
        fn == partition(en[1], [p \in Items(en[1]) |-> isfile(f, p)])
        du == partition(fn[2], [p \in Items(fn[2]) |-> isdir(f, p)])
    IN [files |-> fn[1], dirs |-> du[1], unknown |-> fn[2], nonexist |-> en[2]]

\* A classify that unpacks the last partition the wrong way round.
classify_swapped(f, items) ==
    LET en == partition(items, [p \in Items(items) |-> exists(f, p)])
        fn == partition(en[1], [p \in Items(en[1]) |-> isfile(f, p)])
        du == partition(fn[2], [p \in Items(fn[2]) |-> isdir(f, p)])
    IN [files |-> fn[1], dirs |-> du[2], unknown |-> du[1], nonexist |-> en[2]]

\* classify(items) on filesystem f: files, dirs, unknown, nonexist.
classify(f, items) ==
    LET en == partition(items, [p \in Items(items) |-> exists(f, p)])
        fn == partition(en[1], [p \in Items(en[1]) |-> isfile(f, p)])
        du == partition(fn[2], [p \in Items(fn[2]) |-> isdir(f, p)])
    IN [files |-> fn[1], dirs |-> du[1], unknown |-> du[2], nonexist |-> en[2]]

\* ---------------------------------------------------------- print_items
\* At most MaxItems items in a group that is laid out.
MaxItems == 4
\* numbins is tried on 1..MaxBinItems items and bins of 1..MaxBinSize.
MaxBinItems == 12
MaxBinSize == 6

\* c repeated k times.
RECURSIVE Rep(_, _)
Rep(c, k) == IF k = 0 THEN ""
             ELSE IF k % 2 = 1 THEN c \o Rep(c, k - 1)
             ELSE Rep(c, k \div 2) \o Rep(c, k \div 2)

\* The items a laid-out group is drawn from: two short ones, and one each
\* side of the lengths at which the number of columns changes.
ItemPool == {"x", "y", Rep("x", 38), Rep("x", 39), Rep("x", 58), Rep("x", 59),
             Rep("x", 118), Rep("x", 119)}

LaidOutGroups == SeqsUpTo(ItemPool, MaxItems) \ {<<>>}

\* A numbins that counts one bin too many for a full last bin.
numbins_plus1(n, binsize) == 1 + (n \div binsize)

\* numbins(n, binsize), in the integer division of the language.
numbins(n, binsize) == 1 + ((n - 1) \div binsize)

max_cols == 120

\* width = max(len(f) for f in items) + 2
width(items) ==
    (CHOOSE m \in {Len(items[k]) : k \in 1..Len(items)} :
        \A k \in 1..Len(items) : Len(items[k]) <= m) + 2

\* if width > max_cols: max_cols = width;  items_per_line = max_cols / width
items_per_line(items) ==
    (IF width(items) > max_cols THEN width(items) ELSE max_cols) \div width(items)

\* num_lines = numbins(len(items), items_per_line)
num_lines(items) == numbins(Len(items), items_per_line(items))

\* '{:<width}'.format(item): the item, padded on the right to the width.
itemfmt(item, w) == IF Len(item) >= w THEN item ELSE item \o Rep(" ", w - Len(item))

\* What "print entry," and the closing "print" put on one line: the entries
\* with one space between them.
RECURSIVE LineText(_)
LineText(row) ==
    IF row = <<>> THEN ""
    ELSE IF Len(row) = 1 THEN row[1].text
    ELSE row[1].text \o " " \o LineText(Tail(row))

\* An izip that asks the items first and the column counter second.
izip_itemsfirst(pos, n, col, cols) ==
    IF pos >= n THEN [emit |-> FALSE, pos |-> pos]
    ELSE IF col >= cols THEN [emit |-> FALSE, pos |-> pos + 1]
    ELSE [emit |-> TRUE, pos |-> pos + 1]

\* One step of itertools.izip(xrange(items_per_line), it), with pos items
\* of n taken from it and col numbers taken from the xrange: izip asks the
\* xrange first and stops there without touching it.
izip(pos, n, col, cols) ==
    IF col >= cols THEN [emit |-> FALSE, pos |-> pos]
    ELSE IF pos >= n THEN [emit |-> FALSE, pos |-> pos]
    ELSE [emit |-> TRUE, pos |-> pos + 1]

NoBins == [n |-> 0, binsize |-> 0, result |-> 0]

\* ----------------------------------------------------------------- main
\* One printed group: print_items(hdr, items); a bare line has no items.
Line(hdr, items) == [hdr |-> hdr, items |-> items]

\* A report that keeps the two warning groups for verbose runs.
Report_verboseonly(a, c) ==
    (IF a.verbose /\ c.files # <<>>
     THEN <<Line("files to " \o a.command \o ":", c.files)>> ELSE <<>>)
    \o (IF a.verbose /\ c.dirs # <<>>
        THEN <<Line("dirs to " \o a.command \o ":", c.dirs)>> ELSE <<>>)
    \o (IF a.verbose /\ c.unknown # <<>>
        THEN <<Line("unknown items:", c.unknown)>> ELSE <<>>)
    \o (IF a.verbose /\ c.nonexist # <<>>
        THEN <<Line("not found items:", c.nonexist)>> ELSE <<>>)

\* The groups main prints after classifying, in the order it prints them.
Report(a, c) ==
    (IF a.verbose /\ c.files # <<>>
     THEN <<Line("files to " \o a.command \o ":", c.files)>> ELSE <<>>)
    \o (IF a.verbose /\ c.dirs # <<>>
        THEN <<Line("dirs to " \o a.command \o ":", c.dirs)>> ELSE <<>>)
    \o (IF (c.nonexist # <<>> \/ c.unknown # <<>>) /\ c.unknown # <<>>
        THEN <<Line("unknown items:", c.unknown)>> ELSE <<>>)
    \o (IF (c.nonexist # <<>> \/ c.unknown # <<>>) /\ c.nonexist # <<>>
        THEN <<Line("not found items:", c.nonexist)>> ELSE <<>>)

\* A test that forgets the second "not".
NothingToDo_dirs(files, dirs) == files = <<>> /\ dirs # <<>>

\* if not files and not dirs
NothingToDo(files, dirs) == files = <<>> /\ dirs = <<>>

\* A prompt that stops only on "n".
Declines_n(r) == r = "n"

\* prompt_to_proceed: if response != 'y': sys.exit(0)
Declines(r) == r # "y"

\* A remove whose second loop runs over the files again.
RemoveQueue_filestwice(files, dirs) ==
    [i \in 1..Len(files) |-> [prim |-> "os.remove", path |-> files[i]]]
    \o [i \in 1..Len(files) |-> [prim |-> "shutil.rmtree", path |-> files[i]]]

\* A remove that takes the directories first.
RemoveQueue_dirsfirst(files, dirs) ==
    [i \in 1..Len(dirs) |-> [prim |-> "shutil.rmtree", path |-> dirs[i]]]
    \o [i \in 1..Len(files) |-> [prim |-> "os.remove", path |-> files[i]]]

\* remove(files, dirs): the calls it makes, in the order it makes them.
RemoveQueue(files, dirs) ==
    [i \in 1..Len(files) |-> [prim |-> "os.remove", path |-> files[i]]]
    \o [i \in 1..Len(dirs) |-> [prim |-> "shutil.rmtree", path |-> dirs[i]]]

\* A handler that leaves with status 0.
OnFailure_exit0(n) == [pc |-> "done", exitcode |-> 0, i |-> n]

\* A handler that prints the error and goes on.
OnFailure_goon(n) == [pc |-> "remove", exitcode |-> -1, i |-> n + 1]

\* except Exception: print str(e); sys.exit(1)
OnFailure(n) == [pc |-> "done", exitcode |-> 1, i |-> n]

NoClass == [files |-> <<>>, dirs |-> <<>>, unknown |-> <<>>, nonexist |-> <<>>]

VARIABLES
    argv,      \* the command line
    fs,        \* the filesystem
    stream,    \* what parse_args read from the stream
    outcome,   \* how the run has fared: "pending", "ok" or the error raised
    args,      \* the namespace parse_args returned
    cls,       \* what classify returned
    fs0,       \* the filesystem as classify saw it
    out,       \* what has been printed
    response,  \* what raw_input returned
    calls,     \* the removal primitives invoked, with their results
    i,         \* the position of remove in its queue
    pc,        \* where the run is
    exitcode   \* the exit code of the process, -1 while it runs

VARIABLES
    items,     \* the group print_items is laying out
    it,        \* how many items have been taken from iter(items)
    row,       \* the entries printed on the line being filled
    lines,     \* the lines printed
    ln,        \* the turn of the loop over the lines
    bins,      \* a call of numbins and its result
    lpc        \* where print_items is

\* The variables of a run of the program, and those of a layout.
runvars == <<argv, fs, stream, outcome, args, cls, fs0, out, response, calls, i, pc, exitcode>>
layoutvars == <<items, it, row, lines, ln, bins, lpc>>

vars == <<argv, fs, stream, outcome, args, cls, fs0, out, response, calls, i, pc, exitcode,
          items, it, row, lines, ln, bins, lpc>>

\* No layout is under way.
LayoutIdle ==
    /\ items = <<>>
    /\ it = 0
    /\ row = <<>>
    /\ lines = <<>>
    /\ ln = 0
    /\ bins = NoBins
    /\ lpc = "idle"

Init ==
    /\ argv \in Argvs
    /\ fs \in FileSystems
    /\ stream = <<>>
    /\ outcome = "pending"
    /\ args = NoArgs
    /\ cls = NoClass
    /\ fs0 = fs
    /\ out = <<>>
    /\ response = NoResponse
    /\ calls = <<>>
    /\ i = 1
    /\ pc = "parse"
    /\ exitcode = -1
    /\ LayoutIdle

\* args = parse_args(stream=sys.stdin). A usage error leaves through
\* parser.error (exit status 2), NotImplementedError through the interpreter
\* (exit status 1).
ParseArgs ==
    /\ pc = "parse"
    /\ \E s \in (IF ReadsStream(argv) THEN Streams ELSE {<<>>}) :
          LET r == parse_args(argv, s) IN
          /\ stream' = s
          /\ outcome' = r.outcome
          /\ args' = r.args
          /\ pc' = IF r.outcome = "ok" THEN "classify" ELSE "done"
          /\ exitcode' = IF r.outcome = "ok" THEN -1
                         ELSE IF r.outcome = "usage" THEN 2 ELSE 1
    /\ UNCHANGED <<argv, fs, cls, fs0, out, response, calls, i>>
    /\ UNCHANGED layoutvars

\* files, dirs, unknown, nonexist = classify(args.files)
Classify ==
    /\ pc = "classify"
    /\ cls' = classify(fs, args.files)
    /\ fs0' = fs
    /\ pc' = "report"
    /\ UNCHANGED <<argv, fs, stream, outcome, args, out, response, calls, i, exitcode>>
    /\ UNCHANGED layoutvars

\* The listing of the groups.
Reporting ==
    /\ pc = "report"
    /\ out' = out \o Report(args, cls)
    /\ pc' = "check"
    /\ UNCHANGED <<argv, fs, stream, outcome, args, cls, fs0, response, calls, i, exitcode>>
    /\ UNCHANGED layoutvars

\* Nothing to do, or on to the prompt or to the command.
Check ==
    /\ pc = "check"
    /\ IF NothingToDo(cls.files, cls.dirs)
       THEN /\ out' = Append(out, Line("Nothing to do.", <<>>))
            /\ pc' = "done"
            /\ exitcode' = 1
       ELSE /\ out' = out
            /\ pc' = IF args.interactive THEN "prompt" ELSE "dispatch"
            /\ exitcode' = exitcode
    /\ UNCHANGED <<argv, fs, stream, outcome, args, cls, fs0, response, calls, i>>
    /\ UNCHANGED layoutvars

\* prompt_to_proceed(): raw_input raises EOFError on a closed stream.
Prompt ==
    /\ pc = "prompt"
    /\ out' = Append(out, Line("proceed? (y/n)", <<>>))
    /\ \E r \in Responses \cup {EOF} :
          IF r = EOF
          THEN /\ response' = response
               /\ outcome' = "EOFError"
               /\ pc' = "done"
               /\ exitcode' = 1
          ELSE /\ response' = r
               /\ outcome' = outcome
               /\ pc' = IF Declines(r) THEN "done" ELSE "dispatch"
               /\ exitcode' = IF Declines(r) THEN 0 ELSE exitcode
    /\ UNCHANGED <<argv, fs, stream, args, cls, fs0, calls, i>>
    /\ UNCHANGED layoutvars

\* if args.command == 'remove': remove(files, dirs) else: raise RuntimeError
Dispatch ==
    /\ pc = "dispatch"
    /\ IF args.command = "remove"
       THEN /\ pc' = "remove"
            /\ UNCHANGED <<outcome, exitcode>>
       ELSE /\ pc' = "done"
            /\ outcome' = "RuntimeError"
            /\ exitcode' = 1
    /\ UNCHANGED <<argv, fs, stream, args, cls, fs0, out, response, calls, i>>
    /\ UNCHANGED layoutvars

\* One turn of a loop of remove: the primitive succeeds, or it fails (always
\* so when the path is not what the primitive removes) and the run ends.
RemoveStep ==
    /\ pc = "remove"
    /\ i <= Len(RemoveQueue(cls.files, cls.dirs))
    /\ LET c == RemoveQueue(cls.files, cls.dirs)[i]
           can == IF c.prim = "os.remove" THEN CanRemove(fs, c.path)
                  ELSE CanRmtree(fs, c.path)
       IN \E ok \in {b \in BOOLEAN : b => can} :
             /\ calls' = Append(calls, [prim |-> c.prim, path |-> c.path, ok |-> ok])
             /\ IF ok
                THEN /\ fs' = IF c.prim = "os.remove" THEN os_remove(fs, c.path)
                              ELSE rmtree(fs, c.path)
                     /\ i' = i + 1
                     /\ UNCHANGED <<out, pc, exitcode>>
                ELSE /\ \E R \in SUBSET (IF c.prim = "shutil.rmtree" /\ can
                                         THEN Children(c.path) ELSE {}) :
                            fs' = rmtree_partial(fs, R)
                     /\ out' = Append(out, Line("error", <<c.path>>))
                     /\ pc' = OnFailure(i).pc
                     /\ exitcode' = OnFailure(i).exitcode
                     /\ i' = OnFailure(i).i
    /\ UNCHANGED <<argv, stream, outcome, args, cls, fs0, response>>
    /\ UNCHANGED layoutvars

\* remove returns, main returns: exit status 0.
Finish ==
    /\ pc = "remove"
    /\ i > Len(RemoveQueue(cls.files, cls.dirs))
    /\ pc' = "done"
    /\ exitcode' = 0
    /\ UNCHANGED <<argv, fs, stream, outcome, args, cls, fs0, out, response, calls, i>>
    /\ UNCHANGED layoutvars

Next == ParseArgs \/ Classify \/ Reporting \/ Check \/ Prompt \/ Dispatch
           \/ RemoveStep \/ Finish

Spec == Init /\ [][Next]_vars


\* ------------------------------------------------- print_items, stepwise
\* A layout: print_items on a group of the pool, or numbins on a pair of
\* numbers; the run of the program stands still.
LayoutInit ==
    /\ argv = [interactive |-> FALSE, verbose |-> FALSE, pos |-> <<>>]
    /\ fs = [q \in Names |-> "none"]
    /\ stream = <<>>
    /\ outcome = "pending"
    /\ args = NoArgs
    /\ cls = NoClass
    /\ fs0 = fs
    /\ out = <<>>
    /\ response = NoResponse
    /\ calls = <<>>
    /\ i = 1
    /\ pc = "layout"
    /\ exitcode = -1
    /\ it = 0
    /\ row = <<>>
    /\ lines = <<>>
    /\ ln = 0
    /\ \/ /\ items \in LaidOutGroups
          /\ bins = NoBins
          /\ lpc = "print"
       \/ /\ items = <<>>
          /\ bins \in {[n |-> n, binsize |-> b, result |-> 0] :
                          n \in 1..MaxBinItems, b \in 1..MaxBinSize}
          /\ lpc = "numbins"

\* print hdr, and the sizes of the grid; the loop over the lines begins.
PrintItems ==
    /\ lpc = "print"
    /\ out' = Append(out, Line("unknown items:", items))
    /\ ln' = 1
    /\ lpc' = IF num_lines(items) >= 1 THEN "line" ELSE "done"
    /\ UNCHANGED <<argv, fs, stream, outcome, args, cls, fs0, response, calls, i, pc, exitcode>>
    /\ UNCHANGED <<items, it, row, lines, bins>>

\* izip yields an item: print itemfmt.format(item),
PrintEntry ==
    /\ lpc = "line"
    /\ LET z == izip(it, Len(items), Len(row), items_per_line(items)) IN
          /\ z.emit
          /\ it' = z.pos
          /\ row' = Append(row, [item |-> items[z.pos],
                                 text |-> itemfmt(items[z.pos], width(items))])
    /\ UNCHANGED runvars
    /\ UNCHANGED <<items, lines, ln, bins, lpc>>

\* izip is exhausted: print, and the next line or the end.
EndLine ==
    /\ lpc = "line"
    /\ LET z == izip(it, Len(items), Len(row), items_per_line(items)) IN
          /\ ~z.emit
          /\ it' = z.pos
    /\ lines' = Append(lines, row)
    /\ row' = <<>>
    /\ IF ln < num_lines(items)
       THEN ln' = ln + 1 /\ lpc' = lpc
       ELSE ln' = ln /\ lpc' = "done"
    /\ UNCHANGED runvars
    /\ UNCHANGED <<items, bins>>

\* numbins(n, binsize)
Numbins ==
    /\ lpc = "numbins"
    /\ bins' = [bins EXCEPT !.result = numbins(bins.n, bins.binsize)]
    /\ lpc' = "binned"
    /\ UNCHANGED runvars
    /\ UNCHANGED <<items, it, row, lines, ln>>

LayoutNext == PrintItems \/ PrintEntry \/ EndLine \/ Numbins

LayoutSpec == LayoutInit /\ [][LayoutNext]_vars

\* ================================================================ claims
\* parse_args has returned a namespace.
Returned == outcome \in {"ok", "EOFError", "RuntimeError"}

\* classify has returned.
Classified == Returned /\ pc \notin {"parse", "classify"}

\* The prompt has been shown.
Prompted == \E k \in 1..Len(out) : out[k].hdr = "proceed? (y/n)"

\* The paths remove is given, in its processing order.
Order == cls.files \o cls.dirs

\* C1: Confirmation gate. Once the prompt has been answered with anything
\* but exactly "y", the run is over with exit code 0, no removal primitive
\* has been invoked and the filesystem is as classify saw it; an interactive
\* run is at the command, or has invoked a primitive, only after a "y".
C1_ConfirmationGate ==
    /\ (response # NoResponse /\ response # "y") =>
          /\ pc = "done"
          /\ exitcode = 0
          /\ calls = <<>>
          /\ fs = fs0
          /\ \A k \in 1..Len(Order) : exists(fs, Order[k])
    /\ (Classified /\ args.interactive /\ (pc \in {"dispatch", "remove"} \/ calls # <<>>)) =>
          response = "y"

\* An interactive run on existing targets, declined with an empty answer.
C1_Witness ==
    /\ pc = "done"
    /\ args.interactive
    /\ response = ""
    /\ cls.files # <<>>
    /\ cls.dirs # <<>>
    /\ exitcode = 0

\* C2: Fail-fast. A failed call is the last call: the run is over with a
\* non-zero exit code, the calls made are the first paths of the processing
\* order, each with its own primitive, every call before the failed one
\* succeeded, and no directory is touched when a file fails. In every state
\* a path whose removal succeeded does not exist (no rollback).
C2_FailFast ==
    /\ \A k \in 1..Len(calls) : calls[k].ok => ~exists(fs, calls[k].path)
    /\ \A k \in 1..Len(calls) : ~calls[k].ok =>
          /\ k = Len(calls)
          /\ pc = "done"
          /\ exitcode > 0
          /\ k <= Len(Order)
          /\ \A j \in 1..k : calls[j].path = Order[j]
          /\ \A j \in 1..(k - 1) : calls[j].ok
          /\ k <= Len(cls.files) =>
                /\ \A j \in 1..k : calls[j].prim = "os.remove"
                /\ \A j \in 1..Len(cls.dirs) : isdir(fs, cls.dirs[j])

\* The second of two files cannot be removed, with a directory still to go.
C2_Witness ==
    /\ pc = "done"
    /\ Len(cls.files) = 2
    /\ cls.files[1] # cls.files[2]
    /\ cls.dirs # <<>>
    /\ Len(calls) = 2
    /\ calls[1].ok
    /\ ~calls[2].ok
    /\ exitcode = 1

\* C4: Nothing to do. Once classify has returned no file and no directory,
\* the prompt is never shown and no removal primitive is invoked; past the
\* test of the two groups the run is over with exit code 1 and "Nothing to
\* do." is the last line printed.
C4_NothingToDo ==
    (Classified /\ cls.files = <<>> /\ cls.dirs = <<>>) =>
        /\ ~Prompted
        /\ response = NoResponse
        /\ calls = <<>>
        /\ fs = fs0
        /\ pc \in {"report", "check", "done"}
        /\ pc = "done" =>
              /\ exitcode = 1
              /\ out # <<>>
              /\ out[Len(out)] = Line("Nothing to do.", <<>>)

\* An interactive run whose paths all miss.
C4_Witness ==
    /\ pc = "done"
    /\ Returned
    /\ argv.interactive
    /\ Len(args.files) = 2
    /\ cls.nonexist = args.files
    /\ exitcode = 1

\* C8: Successful removal. The calls made are, in order, os.remove on the
\* files and then shutil.rmtree on the dirs; a run that ends with every call
\* having succeeded made all of them, exits with code 0 and leaves none of
\* the files and dirs in existence.
C8_SuccessfulRemoval ==
    /\ Len(calls) <= Len(Order)
    /\ \A k \in 1..Len(calls) :
          /\ calls[k].path = Order[k]
          /\ calls[k].prim = IF k <= Len(cls.files) THEN "os.remove" ELSE "shutil.rmtree"
    /\ (pc = "done" /\ calls # <<>> /\ \A k \in 1..Len(calls) : calls[k].ok) =>
          /\ exitcode = 0
          /\ Len(calls) = Len(Order)
          /\ \A k \in 1..Len(Order) : ~exists(fs, Order[k])

\* A directory and the file inside it, both removed, the file first.
C8_Witness ==
    /\ pc = "done"
    /\ exitcode = 0
    /\ cls.files = <<"a/a", "a a">>
    /\ cls.dirs = <<"a">>
    /\ Len(calls) = 3
    /\ ~exists(fs, "a")

\* C5: Request flags. In every namespace parse_args returns, interactive
\* implies verbose; and when the path tokens were the single "-", it has
\* interactive false and verbose true, whatever the flags given.
C5_RequestFlags ==
    Returned =>
        /\ args.interactive => args.verbose
        /\ (Len(argv.pos) = 2 /\ argv.pos[1] = "-") =>
              (~args.interactive /\ args.verbose)

\* Paths from the stream, --interactive given and --verbose not.
C5_Witness ==
    /\ Returned
    /\ argv.pos = <<"-", "remove">>
    /\ argv.interactive
    /\ ~argv.verbose
    /\ args.files # <<>>

\* The lines of a stream, told by the places of its newlines: line n starts
\* after the (n-1)-th newline and ends at the n-th, or at the end of the
\* stream when that has no terminator.
Newlines(s) == {k \in 1..Len(s) : s[k] = "\n"}
NumLines(s) == Cardinality(Newlines(s))
                  + (IF s # <<>> /\ s[Len(s)] # "\n" THEN 1 ELSE 0)
NthNewline(s, n) == CHOOSE k \in Newlines(s) : Cardinality({j \in Newlines(s) : j <= k}) = n
LineFirst(s, n) == IF n = 1 THEN 1 ELSE NthNewline(s, n - 1) + 1
LineLast(s, n) == IF n <= Cardinality(Newlines(s)) THEN NthNewline(s, n) ELSE Len(s)

\* t is line n of s without the whitespace at its two ends.
IsStripped(s, n, t) ==
    \E a \in LineFirst(s, n)..(LineLast(s, n) + 1) : \E b \in (a - 1)..LineLast(s, n) :
        /\ \A k \in LineFirst(s, n)..(a - 1) : s[k] \in {" ", "\n"}
        /\ \A k \in (b + 1)..LineLast(s, n) : s[k] \in {" ", "\n"}
        /\ a <= b => (s[a] \notin {" ", "\n"} /\ s[b] \notin {" ", "\n"})
        /\ t = Str(SubSeq(s, a, b))

\* C6: Standard-input sourcing. When the path tokens are the single "-"
\* and the command is remove, the paths are the lines of the stream in
\* order, each without its leading and trailing whitespace and with the
\* rest untouched; when "-" comes with another path token, the stream is
\* not read and the paths are the tokens.
C6_StdinSourcing ==
    Returned =>
        /\ argv.pos = <<"-", "remove">> =>
              /\ Len(args.files) = NumLines(stream)
              /\ \A n \in 1..Len(args.files) : IsStripped(stream, n, args.files[n])
        /\ (Len(argv.pos) > 2 /\ \E k \in 1..(Len(argv.pos) - 1) : argv.pos[k] = "-") =>
              /\ stream = <<>>
              /\ args.files = SubSeq(argv.pos, 1, Len(argv.pos) - 1)

\* A stream of two lines, the first with whitespace before and after it,
\* the second without a terminator.
C6_Witness ==
    /\ Returned
    /\ argv.pos = <<"-", "remove">>
    /\ stream = <<" ", "a", "\n", "a">>
    /\ args.files = <<"a", "a">>

\* C7: Unsupported command. A well-formed invocation of move or copy ends
\* in parse_args with NotImplementedError, which is not the usage error (the
\* exit codes differ too); nothing is classified, printed or asked, and no
\* removal primitive is invoked.
C7_Unsupported ==
    (pc # "parse" /\ Len(argv.pos) >= 2 /\ argv.pos[Len(argv.pos)] \in {"move", "copy"}) =>
        /\ outcome = "NotImplementedError"
        /\ exitcode = 1
        /\ pc = "done"
        /\ cls = NoClass
        /\ out = <<>>
        /\ response = NoResponse
        /\ calls = <<>>
        /\ fs = fs0

\* move, interactively, on a file that exists.
C7_Witness ==
    /\ pc = "done"
    /\ argv.pos = <<"a a", "move">>
    /\ argv.interactive
    /\ isfile(fs, "a a")
    /\ outcome = "NotImplementedError"

\* The usage failures: no path token, or a last token that is no command.
Malformed == Len(argv.pos) < 2 \/ argv.pos[Len(argv.pos)] \notin {"remove", "move", "copy"}

\* A malformed invocation ends in parse_args with exit code 2 and nothing
\* classified, printed, asked or removed.
UsageFailure ==
    (pc # "parse" /\ Malformed) =>
        /\ outcome = "usage"
        /\ exitcode > 0
        /\ pc = "done"
        /\ cls = NoClass
        /\ out = <<>>
        /\ response = NoResponse
        /\ calls = <<>>
        /\ fs = fs0

\* C10 as claimed: a usage failure for a malformed invocation, and for
\* every invocation of one or more path tokens followed by remove a
\* namespace whose paths are those tokens and whose command is remove.
C10_AsClaimed ==
    /\ UsageFailure
    /\ (pc # "parse" /\ Len(argv.pos) >= 2 /\ argv.pos[Len(argv.pos)] = "remove") =>
          /\ Returned
          /\ args.command = "remove"
          /\ args.files = SubSeq(argv.pos, 1, Len(argv.pos) - 1)

\* C10, amended: as claimed, but the paths are the path tokens only when
\* these are not the single token "-".
C10_UsageFailure ==
    /\ UsageFailure
    /\ (pc # "parse" /\ Len(argv.pos) >= 2 /\ argv.pos[Len(argv.pos)] = "remove") =>
          /\ Returned
          /\ args.command = "remove"
          /\ SubSeq(argv.pos, 1, Len(argv.pos) - 1) # <<"-">> =>
                args.files = SubSeq(argv.pos, 1, Len(argv.pos) - 1)

\* Three path tokens and remove.
C10_Witness ==
    /\ Returned
    /\ argv.pos = <<"a a", "-", "a", "remove">>
    /\ args.files = <<"a a", "-", "a">>
    /\ args.command = "remove"

\* The items of p at the places of S, in their order in p.
SubAt(p, S) ==
    LET F[k \in 0..Len(p)] ==
            IF k = 0 THEN <<>>
            ELSE IF k \in S THEN Append(F[k - 1], p[k]) ELSE F[k - 1]
    IN F[Len(p)]

Groups == {"files", "dirs", "unknown", "nonexist"}

\* C3: Classification is a partition. What classify returns (seen in the
\* state it returns to) has as many items as its input, and some assignment
\* of the places of the input to the four groups makes each group the items
\* at its places, in input order.
C3_Partition ==
    pc = "report" =>
        /\ Len(cls.files) + Len(cls.dirs) + Len(cls.unknown) + Len(cls.nonexist)
              = Len(args.files)
        /\ \E g \in [1..Len(args.files) -> Groups] :
              /\ cls.files = SubAt(args.files, {k \in 1..Len(args.files) : g[k] = "files"})
              /\ cls.dirs = SubAt(args.files, {k \in 1..Len(args.files) : g[k] = "dirs"})
              /\ cls.unknown = SubAt(args.files, {k \in 1..Len(args.files) : g[k] = "unknown"})
              /\ cls.nonexist = SubAt(args.files, {k \in 1..Len(args.files) : g[k] = "nonexist"})

\* A file given twice around the directory that holds it.
C3_Witness ==
    /\ pc = "report"
    /\ args.files = <<"a/a", "a", "a/a">>
    /\ cls.files = <<"a/a", "a/a">>
    /\ cls.dirs = <<"a">>

\* The rule for one path, on the kind the filesystem gives it.
GroupOf(f, p) ==
    IF p \notin Names \/ f[p] = "none" THEN "nonexist"
    ELSE IF f[p] = "file" THEN "files"
    ELSE IF f[p] = "dir" THEN "dirs"
    ELSE "unknown"

\* The rule applied in one pass over the input.
RECURSIVE SinglePass(_, _, _)
SinglePass(f, paths, acc) ==
    IF paths = <<>> THEN acc
    ELSE SinglePass(f, Tail(paths),
                    [acc EXCEPT ![GroupOf(f, Head(paths))] = Append(@, Head(paths))])

\* C9: Classification rule. What classify returns is what the rule
\* (nonexistent if the path does not exist, else files if a regular file,
\* else dirs if a directory, else unknown), applied in one pass over the
\* input on the filesystem of that moment, gives.
C9_ClassificationRule ==
    Classified => cls = SinglePass(fs0, args.files, NoClass)

\* A directory, something that is neither file nor directory, and a miss.
C9_Witness ==
    /\ pc = "report"
    /\ cls.dirs = <<"a">>
    /\ cls.unknown = <<"a a">>
    /\ cls.nonexist = <<"a/a">>
    /\ fs["a a"] = "other"

\* Every call of remove was made and succeeded.
AllDeleted ==
    /\ calls # <<>>
    /\ Len(calls) = Len(cls.files) + Len(cls.dirs)
    /\ \A k \in 1..Len(calls) : calls[k].ok

\* The user answered the prompt with something other than "y".
DeclinedAtPrompt == response # NoResponse /\ response # "y"

\* The exit code is 0 exactly for a full deletion and for a decline, and 1
\* for nothing to do and for a failed removal.
ExitCodes ==
    /\ pc # "done" => exitcode = -1
    /\ pc = "done" =>
          /\ exitcode = 0 <=> (AllDeleted \/ DeclinedAtPrompt)
          /\ (Classified /\ cls.files = <<>> /\ cls.dirs = <<>>) => exitcode = 1
          /\ (\E k \in 1..Len(calls) : ~calls[k].ok) => exitcode = 1

\* C11 as claimed: every run ends with exit code 0 or 1, 0 exactly for a
\* full deletion and for a decline, and 1 for a usage error, for nothing to
\* do and for a failed removal.
C11_AsClaimed ==
    /\ ExitCodes
    /\ pc = "done" => exitcode \in {0, 1}
    /\ (pc = "done" /\ Malformed) => exitcode = 1

\* C11, amended: every run ends with exit code 0, 1 or 2, 0 exactly for a
\* full deletion and for a decline, 2 for a usage error, and 1 for nothing
\* to do and for a failed removal.
C11_ExitCodes ==
    /\ ExitCodes
    /\ pc = "done" => exitcode \in {0, 1, 2}
    /\ (pc = "done" /\ Malformed) => exitcode = 2
    /\ (pc = "done" /\ exitcode = 2) => Malformed

\* A command line without a command: the usage error, exit code 2.
C11_Witness ==
    /\ pc = "done"
    /\ argv.pos = <<"a", "a a">>
    /\ outcome = "usage"
    /\ exitcode = 2

\* The groups the claim has printed, in its order: files and dirs when
\* verbose, unknown and not found in any case, each only when non-empty.
Printed(flag, hdr, members) ==
    IF flag /\ members # <<>> THEN <<[hdr |-> hdr, items |-> members]>> ELSE <<>>

ExpectedReport ==
    Printed(args.verbose, "files to remove:", cls.files)
    \o Printed(args.verbose, "dirs to remove:", cls.dirs)
    \o Printed(TRUE, "unknown items:", cls.unknown)
    \o Printed(TRUE, "not found items:", cls.nonexist)

GroupHeaders == {"files to remove:", "dirs to remove:", "unknown items:", "not found items:"}

\* C12: Report triggering and order. Before the report nothing is printed,
\* asked or removed; after it the output starts with the groups due (files
\* and dirs iff verbose and non-empty, unknown and not found iff non-empty),
\* in the order files, dirs, unknown, not found, each once, and no group is
\* printed after them: the notice, the prompt and the errors of remove
\* follow.
C12_ReportOrder ==
    /\ (Returned /\ pc \in {"classify", "report"}) =>
          (out = <<>> /\ calls = <<>> /\ response = NoResponse /\ fs = fs0)
    /\ (Classified /\ pc # "report") =>
          /\ Len(out) >= Len(ExpectedReport)
          /\ SubSeq(out, 1, Len(ExpectedReport)) = ExpectedReport
          /\ \A k \in (Len(ExpectedReport) + 1)..Len(out) : out[k].hdr \notin GroupHeaders

\* A run that is not verbose and warns of a miss before it removes a file.
C12_Witness ==
    /\ pc = "done"
    /\ ~args.verbose
    /\ cls.files # <<>>
    /\ cls.nonexist # <<>>
    /\ cls.unknown # <<>>
    /\ Len(out) = 2
    /\ calls # <<>>

\* C15: Request paths are non-empty. Every namespace parse_args returns
\* has a non-empty sequence of paths, none of them the empty string.
C15_NonEmptyPaths ==
    Returned => (args.files # <<>> /\ \A k \in 1..Len(args.files) : args.files[k] # "")

\* How often p is among the first n items of s.
Count(s, p, n) == Cardinality({k \in 1..n : k <= Len(s) /\ s[k] = p})

\* C16: Only the validated subset is touched. os.remove is invoked on a
\* path no more often than classify put it in files, shutil.rmtree no more
\* often than classify put it in dirs, and neither on a path of unknown or
\* of nonexistent; a run that is not interactive and has a file or a
\* directory does not end before it has invoked a primitive, whatever the
\* other two groups hold.
C16_ValidatedSubset ==
    /\ \A k \in 1..Len(calls) :
          /\ calls[k].prim = "os.remove" =>
                Cardinality({j \in 1..k : calls[j].prim = "os.remove" /\ calls[j].path = calls[k].path})
                   <= Count(cls.files, calls[k].path, Len(cls.files))
          /\ calls[k].prim = "shutil.rmtree" =>
                Cardinality({j \in 1..k : calls[j].prim = "shutil.rmtree" /\ calls[j].path = calls[k].path})
                   <= Count(cls.dirs, calls[k].path, Len(cls.dirs))
          /\ Count(cls.unknown, calls[k].path, Len(cls.unknown)) = 0
          /\ Count(cls.nonexist, calls[k].path, Len(cls.nonexist)) = 0
    /\ (Classified /\ pc = "done" /\ ~args.interactive
           /\ (cls.files # <<>> \/ cls.dirs # <<>>)) => calls # <<>>

\* A run that is not interactive removes its file and its directory past a
\* miss and something that is neither file nor directory.
C16_Witness ==
    /\ pc = "done"
    /\ ~args.interactive
    /\ cls.unknown # <<>>
    /\ cls.nonexist # <<>>
    /\ cls.dirs # <<>>
    /\ AllDeleted

\* The place of the prompt in the output, 0 when it was not shown.
PromptAt == IF Prompted THEN CHOOSE k \in 1..Len(out) : out[k].hdr = "proceed? (y/n)" ELSE 0

\* C17: Prompt ordering. When the prompt is shown the whole report stands
\* before it and nothing but the errors of remove after it; every path a
\* primitive is invoked on was printed before the prompt in the files or
\* the dirs group; no primitive is invoked before "y" was read. With the
\* paths from the stream the prompt is never shown, and a run with a file
\* or a directory is at the command right after the report.
C17_PromptOrdering ==
    /\ Prompted =>
          /\ PromptAt = Len(ExpectedReport) + 1
          /\ \A k \in 1..(PromptAt - 1) : out[k].hdr \in GroupHeaders
          /\ \A k \in (PromptAt + 1)..Len(out) : out[k].hdr = "error"
          /\ \A c \in 1..Len(calls) : \E k \in 1..(PromptAt - 1) :
                /\ out[k].hdr \in {"files to remove:", "dirs to remove:"}
                /\ \E n \in 1..Len(out[k].items) : out[k].items[n] = calls[c].path
          /\ calls # <<>> => response = "y"
    /\ (Classified /\ args.interactive /\ calls # <<>>) => (Prompted /\ response = "y")
    /\ (Returned /\ argv.pos = <<"-", "remove">>) =>
          /\ ~Prompted
          /\ response = NoResponse
          /\ pc \in {"classify", "report", "check", "dispatch", "remove", "done"}
          /\ (pc = "done" /\ (cls.files # <<>> \/ cls.dirs # <<>>)) => calls # <<>>

\* An interactive run, answered "y", that removed a file and a directory.
C17_Witness ==
    /\ pc = "done"
    /\ Prompted
    /\ response = "y"
    /\ AllDeleted
    /\ cls.files # <<>>
    /\ cls.dirs # <<>>
    /\ cls.nonexist # <<>>

\* C19: Duplicates and fail-fast. A path that is a regular file when
\* classify runs is in files as often as it is in the path list; once it
\* has been removed, the call for a later occurrence of it fails, and that
\* call is the last: the run ends with exit code 1, the file gone, and no
\* later file and no directory processed.
C19_Duplicates ==
    /\ Classified =>
          \A k \in 1..Len(args.files) :
             (args.files[k] \in Names /\ fs0[args.files[k]] = "file") =>
                Count(cls.files, args.files[k], Len(cls.files))
                   = Count(args.files, args.files[k], Len(args.files))
    /\ \A k \in 1..Len(calls) : \A j \in 1..(k - 1) :
          (calls[j].path = calls[k].path /\ calls[j].prim = "os.remove"
              /\ calls[k].prim = "os.remove" /\ calls[j].ok) =>
             /\ ~calls[k].ok
             /\ k = Len(calls)
             /\ pc = "done"
             /\ exitcode = 1
             /\ ~exists(fs, calls[k].path)
             /\ \A d \in 1..Len(cls.dirs) : isdir(fs, cls.dirs[d])
    /\ (pc = "done" /\ \E j, k \in 1..Len(cls.files) : j < k /\ cls.files[j] = cls.files[k]) =>
          ~AllDeleted

\* The same file twice, a directory after it: the second removal fails.
C19_Witness ==
    /\ pc = "done"
    /\ args.files = <<"a a", "a a", "a">>
    /\ cls.files = <<"a a", "a a">>
    /\ cls.dirs = <<"a">>
    /\ Len(calls) = 2
    /\ calls[1].ok
    /\ ~calls[2].ok
    /\ exitcode = 1
    /\ isdir(fs, "a")

\* ---------------------------------------------------- claims on the layout
\* The length of the longest item of the group.
Longest ==
    LET lens == {Len(items[k]) : k \in 1..Len(items)}
    IN CHOOSE w \in lens : \A v \in lens : v <= w

\* floor(120 / (W + 2)), or 1 when W + 2 exceeds 120.
ColumnsPerLine ==
    LET w == Longest + 2
    IN IF w > 120 THEN 1
       ELSE CHOOSE c \in 1..120 : c * w <= 120 /\ (c + 1) * w > 120

\* ceil(n / b): the least number of bins of b that hold n.
Ceil(n, b) == CHOOSE k \in 0..n : k * b >= n /\ (k = 0 \/ (k - 1) * b < n)

\* The lines printed, with the line being filled.
AllLines == IF row = <<>> THEN lines ELSE Append(lines, row)

\* C13: Column layout arithmetic. print_items puts at most
\* floor(120/(W+2)) entries on a line (1 when W+2 > 120), fills the first
\* line up to that number, and has printed exactly ceil(N / that number)
\* lines when it is done; numbins(n, b) is ceil(n / b).
C13_ColumnLayout ==
    /\ lpc \in {"line", "done"} =>
          LET cols == ColumnsPerLine IN
          /\ \A k \in 1..Len(AllLines) : Len(AllLines[k]) <= cols
          /\ Len(AllLines) <= Ceil(Len(items), cols)
          /\ lpc = "done" =>
                /\ Len(lines) = Ceil(Len(items), cols)
                /\ Len(lines[1]) = IF Len(items) < cols THEN Len(items) ELSE cols
    /\ lpc = "binned" => bins.result = Ceil(bins.n, bins.binsize)

\* Four items, the longest of 38: three columns, two lines.
C13_Witness ==
    /\ lpc = "done"
    /\ Len(items) = 4
    /\ Longest = 38
    /\ Len(lines) = 2
    /\ Len(lines[1]) = 3
    /\ Len(lines[2]) = 1

\* C14: Line width bound. For a group whose longest item has W + 2 <= 120,
\* every line printed, its entries padded to W + 2 and the separator of
\* print between them, is at most 120 columns wide.
C14_LineWidth ==
    (lpc \in {"line", "done"} /\ Longest + 2 <= 120) =>
        \A k \in 1..Len(lines) : Len(LineText(lines[k])) <= 120

\* The items of the lines, one after the other.
RECURSIVE Flatten(_)
Flatten(ls) ==
    IF ls = <<>> THEN <<>>
    ELSE [k \in 1..Len(ls[1]) |-> ls[1][k].item] \o Flatten(Tail(ls))

\* C18: No item is lost or repeated. The entries printed so far, line by
\* line, are the items taken from the iterator so far, and all the items
\* when print_items is done; ending a line takes no item; every line but
\* the last holds exactly the number of columns.
C18_NoItemLost ==
    lpc \in {"line", "done"} =>
        LET cols == ColumnsPerLine IN
        /\ Flatten(AllLines) = SubSeq(items, 1, it)
        /\ lpc = "done" => (it = Len(items) /\ Flatten(lines) = items)
        /\ \A k \in 1..(Len(lines) - 1) : Len(lines[k]) = cols
        /\ lpc = "line" => \A k \in 1..Len(lines) : Len(lines[k]) = cols

\* Three items in two columns: a full line and a last line of one.
C18_Witness ==
    /\ lpc = "done"
    /\ items = <<"x", Rep("x", 58), "y">>
    /\ Len(lines) = 2
    /\ Len(lines[1]) = 2
    /\ Len(lines[2]) = 1

====
